---- MODULE Spec2Model ----
(***************************************************************************)
(* Blogicum: the views of blog/views.py over the Post, Comment, Category   *)
(* and User tables.                                                        *)
(*                                                                         *)
(* The database is the state.  A step is one HTTP request handled by one   *)
(* class-based view (the request and its response are recorded until the   *)
(* response has gone out), one edit through an admin change list           *)
(* (blog/admin.py), or the passing of time.                                *)
(*                                                                         *)
(* Two specifications share the state and the views' definitions:          *)
(*   SpecRead  the list and detail views, the admin's list_editable        *)
(*             fields and the clock, over every publication state of the   *)
(*             posts;                                                      *)
(*   Spec      the create, update and delete views, over every Post and    *)
(*             Comment table the forms can leave behind.                   *)
(* Both start from any database within the bounds.  Comment rows exist     *)
(* from the start: CommentCreateView cannot save one (see below).          *)
(*                                                                         *)
(* blog/models.py, blog/forms.py and blog/urls.py are not part of the      *)
(* sources read here; the fields of the rows, the forms' data and the      *)
(* routes follow the data model and the route table of spec.md.           *)
(* With paginate_by = 10 and at most MaxPosts rows every listing fits its  *)
(* first page; a request for a later page is answered Http404.             *)
(***************************************************************************)
EXTENDS Integers, Sequences, FiniteSets, TLC

\* ---------------------------------------------------------------- bounds
MaxPosts == 2
MaxComments == 1
MaxTime == 2

\* ------------------------------------------------------ program constants
\* paginate_by = 10 of the three list views
paginate_by == 10

\* ------------------------------------------------------------ value sets
Users == {"u1", "u2"}
\* request.user of an unauthenticated request
Anon == "AnonymousUser"
Requesters == Users \cup {Anon}
\* usernames a profile URL may carry: the existing ones and one that is nobody's
Usernames == Users \cup {"nobody"}
\* a category is identified by its unique slug
Categories == {"c1", "c2"}
Slugs == Categories \cup {"noslug"}
NoLocation == "None"
Titles == {"t1", "t2"}
CommentTexts == {"k1", "k2"}
\* publication dates: 1 is never in the future, 2 is while now = 1
PubDates == {1, 2}
PostIds == 1..MaxPosts
CommentIds == 1..MaxComments
\* the ?page= values a list request may carry
Pages == {1, 2}

VARIABLES
    posts,       \* Post table: pk -> row
    comments,    \* Comment table: pk -> row
    categories,  \* Category table: slug -> is_published
    users,       \* User table: username -> profile fields
    now,         \* timezone.now()
    request,     \* the request being answered: the view, request.user, the
                 \* URL kwargs, whether it posts a valid form and the author
                 \* that form names
    response     \* the response to it

vars == <<posts, comments, categories, users, now, request, response>>
db == <<posts, comments, categories, users>>

\* --------------------------------------------------------------- records
NoRedirect == [url |-> "", post_id |-> 0, username |-> ""]
RedirectLogin == [url |-> "login", post_id |-> 0, username |-> ""]
RedirectPostDetail(post_id) ==
    [url |-> "blog:post_detail", post_id |-> post_id, username |-> ""]
RedirectProfile(username) ==
    [url |-> "blog:profile", post_id |-> 0, username |-> username]

Request(view, method, user, post_id, comment_id, name, page, valid, author) ==
    [view |-> view, method |-> method, user |-> user, post_id |-> post_id,
     comment_id |-> comment_id, name |-> name, page |-> page,
     form_valid |-> valid, form_author |-> author]

NoRequest == Request("", "", Anon, 0, 0, "", 0, FALSE, "")

Response(status, to, object_list, page_items) ==
    [status |-> status, to |-> to, object_list |-> object_list,
     page_items |-> page_items]

NoResponse == Response(0, NoRedirect, <<>>, <<>>)
Redirect(to) == Response(302, to, <<>>, <<>>)
Rendered == Response(200, NoRedirect, <<>>, <<>>)
NotFound == Response(404, NoRedirect, <<>>, <<>>)
ServerError == Response(500, NoRedirect, <<>>, <<>>)

Range(s) == {s[i] : i \in 1..Len(s)}
Min(a, b) == IF a <= b THEN a ELSE b

\* ------------------------------------------------------ get_filtered_posts
\* the filter without category__is_published=True
PassesFilter_IgnoringCategory(p) ==
    /\ posts[p].pub_date <= now
    /\ posts[p].is_published

\* .filter(pub_date__lte=timezone.now(), is_published=True,
\*         category__is_published=True)
PassesFilter(p) ==
    /\ posts[p].pub_date <= now
    /\ posts[p].is_published
    /\ categories[posts[p].category]

\* .order_by('pub_date'): oldest first
OrderByPubDateAsc(S) ==
    {s \in [1..Cardinality(S) -> S] :
        /\ \A i, j \in 1..Cardinality(S) : i # j => s[i] # s[j]
        /\ \A i, j \in 1..Cardinality(S) :
              i < j => posts[s[i]].pub_date <= posts[s[j]].pub_date}

\* .order_by('-pub_date'): the rows of S in every order the database may
\* return them in, rows of equal pub_date in any order
OrderByPubDateDesc(S) ==
    {s \in [1..Cardinality(S) -> S] :
        /\ \A i, j \in 1..Cardinality(S) : i # j => s[i] # s[j]
        /\ \A i, j \in 1..Cardinality(S) :
              i < j => posts[s[i]].pub_date >= posts[s[j]].pub_date}

\* the evaluations of the queryset get_filtered_posts() returns
get_filtered_posts ==
    OrderByPubDateDesc({p \in DOMAIN posts : PassesFilter(p)})

\* ------------------------------------------------------------- Paginator
num_pages(count) ==
    IF count = 0 THEN 1 ELSE (count + paginate_by - 1) \div paginate_by

ValidPage(qs, page) == page >= 1 /\ page <= num_pages(Len(qs))

PageOf(qs, page) ==
    SubSeq(qs, (page - 1) * paginate_by + 1, Min(page * paginate_by, Len(qs)))

\* ListView.get: the page of the evaluated queryset, Http404 for a page
\* that does not exist
ListResponse(qs, page) ==
    IF ValidPage(qs, page)
    THEN Response(200, NoRedirect, qs, PageOf(qs, page))
    ELSE NotFound

\* a view without LoginRequiredMixin lets every request through
LoginNotRequired(user) == TRUE

\* LoginRequiredMixin.dispatch lets the request through
LoginRequired(user) == user # Anon

\* request.user of a view that never reads it
AnyUser == "*"

\* one request at a time: no request is being answered
Idle == request = NoRequest

\* the response goes out and the server waits for the next request
Respond ==
    /\ ~Idle
    /\ request' = NoRequest
    /\ response' = NoResponse
    /\ UNCHANGED <<db, now>>

\* ------------------------------------------------------------ read views
PostListView(page) ==
    /\ Idle
    /\ request' = Request("blog:index", "GET", AnyUser, 0, 0, "", page, FALSE, "")
    /\ \E qs \in get_filtered_posts : response' = ListResponse(qs, page)
    /\ UNCHANGED <<db, now>>

PostDetailView(user, post_id) ==
    /\ Idle
    /\ request' = Request("blog:post_detail", "GET", user, post_id, 0, "", 0,
                          FALSE, "")
    /\ response' = IF post_id \in DOMAIN posts THEN Rendered ELSE NotFound
    /\ UNCHANGED <<db, now>>

\* the lookup without is_published=True
CategoryExists(category_slug) == category_slug \in DOMAIN categories

\* get_object_or_404(Category, is_published=True, slug=...) finds a row
PublishedCategory(category_slug) ==
    /\ category_slug \in DOMAIN categories
    /\ categories[category_slug]

CategoryListView(category_slug, page) ==
    /\ Idle
    /\ request' = Request("blog:category_posts", "GET", AnyUser, 0, 0, category_slug,
                          page, FALSE, "")
    /\ \E all \in get_filtered_posts :
          LET qs == SelectSeq(all, LAMBDA p : posts[p].category = category_slug)
          IN  response' =
                  IF ValidPage(qs, page) /\ PublishedCategory(category_slug)
                  THEN ListResponse(qs, page)
                  ELSE NotFound
    /\ UNCHANGED <<db, now>>

ProfileListView(user, username, page) ==
    /\ Idle
    /\ request' = Request("blog:profile", "GET", user, 0, 0, username, page,
                          FALSE, "")
    /\ IF ~LoginRequired(user)
       THEN response' = Redirect(RedirectLogin)
       ELSE IF username \notin DOMAIN users
       THEN response' = NotFound
       ELSE \E all \in get_filtered_posts :
               LET qs == SelectSeq(all, LAMBDA p : posts[p].author = username)
               IN  response' = ListResponse(qs, page)
    /\ UNCHANGED <<db, now>>

\* --------------------------------------------------------- time and admin
\* Neither is a request to a view of blog/views.py: no request is recorded.
Tick ==
    /\ Idle
    /\ now < MaxTime
    /\ now' = now + 1
    /\ UNCHANGED <<db, request, response>>

\* CategoryAdmin.list_editable = ('is_published',)
CategoryAdmin(slug, is_published) ==
    /\ Idle
    /\ slug \in DOMAIN categories
    /\ categories' = [categories EXCEPT ![slug] = is_published]
    /\ UNCHANGED <<posts, comments, users, now, request, response>>

\* PostAdmin.list_editable = ('is_published', 'pub_date')
PostAdmin(post_id, is_published, pub_date) ==
    /\ Idle
    /\ post_id \in DOMAIN posts
    /\ posts' = [posts EXCEPT ![post_id].is_published = is_published,
                              ![post_id].pub_date = pub_date]
    /\ UNCHANGED <<comments, categories, users, now, request, response>>

\* ------------------------------------------------------------ the tables
Tables(Ids, Rows) == UNION {[ids -> Rows] : ids \in SUBSET Ids}

UserRows == [u \in Users |-> [first_name |-> u]]

\* posts as the list views see them: every publication state
ReadPostRows ==
    [title : {"t1"}, text : {"x1"}, pub_date : PubDates, is_published : BOOLEAN,
     category : Categories, location : {NoLocation}, author : Users]

InitRead ==
    /\ posts \in Tables(PostIds, ReadPostRows)
    /\ comments = <<>>
    /\ categories \in [Categories -> BOOLEAN]
    /\ users = UserRows
    /\ now = 1
    /\ request = NoRequest
    /\ response = NoResponse

NextRead ==
    \/ \E page \in Pages : PostListView(page)
    \/ \E u \in Requesters, p \in PostIds : PostDetailView(u, p)
    \/ \E s \in Slugs, page \in Pages : CategoryListView(s, page)
    \/ \E u \in Requesters, n \in Usernames, page \in Pages : ProfileListView(u, n, page)
    \/ Respond
    \/ Tick
    \/ \E s \in Categories, b \in BOOLEAN : CategoryAdmin(s, b)
    \/ \E p \in PostIds, b \in BOOLEAN, d \in PubDates : PostAdmin(p, b, d)

SpecRead == InitRead /\ [][NextRead]_vars
\* ----------------------------------------------------------- write views
\* The bound data of a valid PostForm: every field of Post, the author the
\* client supplies among them.
PostForms ==
    [title : Titles, text : {"x1"}, pub_date : {1}, is_published : {TRUE},
     category : {"c1"}, location : {NoLocation}, author : Users]

\* The bound data of a valid CommentForm.
CommentForms == [text : CommentTexts]

\* Submitted data that fails validation: the required field is blank.
BlankPostForm ==
    [title |-> "", text |-> "x1", pub_date |-> 1, is_published |-> TRUE,
     category |-> "c1", location |-> NoLocation, author |-> "u1"]
BlankCommentForm == [text |-> ""]

\* form.is_valid() of PostForm and of CommentForm
PostFormIsValid(form) == form.title # ""
CommentFormIsValid(form) == form.text # ""

\* Deleting a post deletes its comments ("cascade when parent deleted").
CascadeDelete(post_id) ==
    [c \in {k \in DOMAIN comments : comments[k].post # post_id} |-> comments[c]]

\* form_valid without the assignment: the author the form carries is saved
PostCreateView_form_valid_FormAuthor(instance, user) == instance

\* PostCreateView.form_valid: form.instance.author = self.request.user
PostCreateView_form_valid(instance, user) == [instance EXCEPT !.author = user]

PostCreateView(method, user, form) ==
    /\ Idle
    /\ request' = Request("blog:create_post", method, user, 0, 0, "", 0,
                          method = "POST" /\ PostFormIsValid(form),
                          IF method = "POST" THEN form.author ELSE "")
    /\ IF ~LoginRequired(user)
       THEN response' = Redirect(RedirectLogin) /\ UNCHANGED posts
       ELSE IF method = "GET" \/ ~PostFormIsValid(form)
       THEN response' = Rendered /\ UNCHANGED posts
       ELSE \* the database assigns a primary key that no row has
            \E pk \in PostIds \ DOMAIN posts :
               /\ posts' = [p \in DOMAIN posts \cup {pk} |->
                               IF p = pk
                               THEN PostCreateView_form_valid(form, user)
                               ELSE posts[p]]
               /\ response' = Redirect(RedirectProfile(user))
    /\ UNCHANGED <<comments, categories, users, now>>

\* PostUpdateView.form_valid: form.instance.author = self.request.user
PostUpdateView_form_valid(instance, user) == [instance EXCEPT !.author = user]

PostUpdateView(method, user, post_id, form) ==
    /\ Idle
    /\ request' = Request("blog:edit_post", method, user, post_id, 0, "", 0,
                          method = "POST" /\ PostFormIsValid(form),
                          IF method = "POST" THEN form.author ELSE "")
    /\ IF ~LoginRequired(user)
       THEN response' = Redirect(RedirectLogin) /\ UNCHANGED posts
       ELSE IF post_id \notin DOMAIN posts
       THEN response' = NotFound /\ UNCHANGED posts
       ELSE IF method = "GET" \/ ~PostFormIsValid(form)
       THEN response' = Rendered /\ UNCHANGED posts
       ELSE /\ posts' = [posts EXCEPT
                            ![post_id] = PostUpdateView_form_valid(form, user)]
            /\ response' = Redirect(RedirectPostDetail(post_id))
    /\ UNCHANGED <<comments, categories, users, now>>

PostDeleteView(method, user, post_id) ==
    /\ Idle
    /\ request' = Request("blog:delete_post", method, user, post_id, 0, "", 0,
                          FALSE, "")
    /\ IF ~LoginRequired(user)
       THEN response' = Redirect(RedirectLogin) /\ UNCHANGED <<posts, comments>>
       ELSE IF post_id \notin DOMAIN posts
       THEN response' = NotFound /\ UNCHANGED <<posts, comments>>
       ELSE IF method = "GET"
       THEN response' = Rendered /\ UNCHANGED <<posts, comments>>
       ELSE /\ posts' = [p \in DOMAIN posts \ {post_id} |-> posts[p]]
            /\ comments' = CascadeDelete(post_id)
            /\ response' = Redirect(RedirectProfile(user))
    /\ UNCHANGED <<categories, users, now>>

\* The route /profile/edit carries neither a pk nor a slug and get_object is
\* not overridden: SingleObjectMixin.get_object raises AttributeError.
EditProfileUpdateView(method, user) ==
    /\ Idle
    /\ request' = Request("blog:edit_profile", method, user, 0, 0, "", 0,
                          FALSE, "")
    /\ response' = IF ~LoginRequired(user) THEN Redirect(RedirectLogin)
                   ELSE ServerError
    /\ UNCHANGED <<db, now>>

\* CommentMixin.form_valid: form.instance.author = self.request.user
CommentMixin_form_valid(instance, user) == [instance EXCEPT !.author = user]

\* def get_filtered_posts(): takes no argument
get_filtered_posts_parameters == 0
\* get_filtered_posts(Post.objects) in CommentCreateView.form_valid passes one
get_filtered_posts_arguments == 1

CommentCreateView(method, user, post_id, form) ==
    /\ Idle
    /\ request' = Request("blog:add_comment", method, user, post_id, 0, "", 0,
                          method = "POST" /\ CommentFormIsValid(form), "")
    /\ IF ~LoginRequired(user)
       THEN response' = Redirect(RedirectLogin) /\ UNCHANGED comments
       ELSE IF method = "GET" \/ ~CommentFormIsValid(form)
       THEN response' = Rendered /\ UNCHANGED comments
       ELSE IF get_filtered_posts_arguments # get_filtered_posts_parameters
       THEN \* TypeError, raised before anything is saved
            response' = ServerError /\ UNCHANGED comments
       ELSE IF post_id \notin DOMAIN posts \/ ~PassesFilter(post_id)
       THEN response' = NotFound /\ UNCHANGED comments
       ELSE \E pk \in CommentIds \ DOMAIN comments :
               /\ comments' = [c \in DOMAIN comments \cup {pk} |->
                                  IF c = pk
                                  THEN [text |-> form.text, author |-> user,
                                        post |-> post_id]
                                  ELSE comments[c]]
               /\ response' = Redirect(RedirectPostDetail(post_id))
    /\ UNCHANGED <<posts, categories, users, now>>

\* get_object looks the comment up by comment_id alone
CommentUpdateView(method, user, post_id, comment_id, form) ==
    /\ Idle
    /\ request' = Request("blog:edit_comment", method, user, post_id, comment_id,
                          "", 0, method = "POST" /\ CommentFormIsValid(form), "")
    /\ IF ~LoginRequired(user)
       THEN response' = Redirect(RedirectLogin) /\ UNCHANGED comments
       ELSE IF comment_id \notin DOMAIN comments
       THEN response' = NotFound /\ UNCHANGED comments
       ELSE IF method = "GET" \/ ~CommentFormIsValid(form)
       THEN response' = Rendered /\ UNCHANGED comments
       ELSE /\ comments' = [comments EXCEPT ![comment_id] =
                               CommentMixin_form_valid(
                                   [@ EXCEPT !.text = form.text], user)]
            /\ response' = Redirect(RedirectPostDetail(post_id))
    /\ UNCHANGED <<posts, categories, users, now>>

CommentDeleteView(method, user, post_id, comment_id) ==
    /\ Idle
    /\ request' = Request("blog:delete_comment", method, user, post_id, comment_id,
                          "", 0, FALSE, "")
    /\ IF ~LoginRequired(user)
       THEN response' = Redirect(RedirectLogin) /\ UNCHANGED comments
       ELSE IF comment_id \notin DOMAIN comments
       THEN response' = NotFound /\ UNCHANGED comments
       ELSE IF method = "GET"
       THEN response' = Rendered /\ UNCHANGED comments
       ELSE /\ comments' = [c \in DOMAIN comments \ {comment_id} |-> comments[c]]
            /\ response' = Redirect(RedirectPostDetail(post_id))
    /\ UNCHANGED <<posts, categories, users, now>>

\* posts as the write views leave them
WritePostRows == PostForms

CommentRows(post_ids) == [text : CommentTexts, author : Users, post : post_ids]

Init ==
    /\ posts \in Tables(PostIds, WritePostRows)
    /\ comments \in Tables(CommentIds, CommentRows(DOMAIN posts))
    /\ categories = [c \in Categories |-> TRUE]
    /\ users = UserRows
    /\ now = 1
    /\ request = NoRequest
    /\ response = NoResponse

Methods == {"GET", "POST"}

\* what a request submits: the form data of a POST, none with a GET
Submissions(Forms, NoData) ==
    {<<"POST", f>> : f \in Forms} \cup {<<"GET", NoData>>}
PostSubmissions == Submissions(PostForms \cup {BlankPostForm}, BlankPostForm)
CommentSubmissions ==
    Submissions(CommentForms \cup {BlankCommentForm}, BlankCommentForm)

Next ==
    \/ \E u \in Requesters, s \in PostSubmissions : PostCreateView(s[1], u, s[2])
    \/ \E u \in Requesters, p \in PostIds, s \in PostSubmissions :
          PostUpdateView(s[1], u, p, s[2])
    \/ \E m \in Methods, u \in Requesters, p \in PostIds : PostDeleteView(m, u, p)
    \/ \E m \in Methods, u \in Requesters : EditProfileUpdateView(m, u)
    \/ \E u \in Requesters, p \in PostIds, s \in CommentSubmissions :
          CommentCreateView(s[1], u, p, s[2])
    \/ \E u \in Requesters, p \in PostIds, c \in CommentIds,
          s \in CommentSubmissions : CommentUpdateView(s[1], u, p, c, s[2])
    \/ \E m \in Methods, u \in Requesters, p \in PostIds, c \in CommentIds :
          CommentDeleteView(m, u, p, c)
    \/ Respond

Spec == Init /\ [][Next]_vars

\* ================================================================ claims
MutatingViews ==
    {"blog:create_post", "blog:edit_post", "blog:delete_post", "blog:add_comment",
     "blog:edit_comment", "blog:delete_comment", "blog:edit_profile"}

ListViews == {"blog:index", "blog:category_posts", "blog:profile"}

\* C1: an edit (valid form) or delete request for post p by an authenticated
\* user who is not p's author is answered with a redirect to p's detail page
\* and leaves p as it was.
C1_NonAuthorRequestLeavesPost ==
    [][\A p \in DOMAIN posts :
          (/\ request'.view \in {"blog:edit_post", "blog:delete_post"}
           /\ request'.method = "POST"
           /\ request'.post_id = p
           /\ request'.user \in Users \ {posts[p].author}
           /\ request'.view = "blog:edit_post" => request'.form_valid)
          => (/\ response' = Redirect(RedirectPostDetail(p))
              /\ p \in DOMAIN posts'
              /\ posts'[p] = posts[p])]_vars

\* C2: an edit (valid form) or delete request for comment c by an authenticated
\* user who is not c's author leaves the comment row as it was and redirects to
\* the detail page of the comment's post.
C2_NonAuthorRequestLeavesComment ==
    [][\A c \in DOMAIN comments :
          (/\ request'.view \in {"blog:edit_comment", "blog:delete_comment"}
           /\ request'.comment_id = c
           /\ request'.post_id = comments[c].post
           /\ request'.user \in Users \ {comments[c].author}
           /\ request'.method = "POST"
           /\ request'.view = "blog:edit_comment" => request'.form_valid)
          => (/\ response' = Redirect(RedirectPostDetail(comments[c].post))
              /\ c \in DOMAIN comments'
              /\ comments'[c] = comments[c])]_vars

\* C3: a post is in the queryset of the home listing exactly when it is
\* published, its category is published and its pub_date is not after now.
C3_HomeListingIsVisiblePosts ==
    (request.view = "blog:index" /\ response.status = 200)
    => /\ \A p \in DOMAIN posts :
             p \in Range(response.object_list)
             <=> (/\ posts[p].is_published
                  /\ categories[posts[p].category]
                  /\ posts[p].pub_date <= now)
       /\ Range(response.object_list) \subseteq DOMAIN posts

\* C3 witness: a home listing that shows one post and leaves out another whose
\* only fault is its unpublished category.
C3_Witness ==
    /\ request.view = "blog:index"
    /\ response.status = 200
    /\ \E p, q \in DOMAIN posts :
          /\ p \in Range(response.object_list)
          /\ q \notin Range(response.object_list)
          /\ posts[q].is_published
          /\ posts[q].pub_date <= now
          /\ ~categories[posts[q].category]

\* C4: the detail page of an existing post is served exactly when the post
\* passes the visibility filter or the viewer is its author.
C4_DetailOnlyForVisibleOrAuthor ==
    (request.view = "blog:post_detail" /\ request.post_id \in DOMAIN posts)
    => (response.status = 200
        <=> (PassesFilter(request.post_id)
             \/ request.user = posts[request.post_id].author))

\* C5: a valid comment form posted by an authenticated user creates exactly one
\* comment (author the user, post the target) and redirects to the post when
\* the target exists and passes the visibility filter, and answers 404 without
\* creating a comment otherwise.
C5_CommentCreated ==
    [][(/\ request'.view = "blog:add_comment"
        /\ request'.method = "POST"
        /\ request'.user \in Users
        /\ request'.form_valid
        /\ CommentIds \ DOMAIN comments # {})
       => IF request'.post_id \in DOMAIN posts /\ PassesFilter(request'.post_id)
          THEN /\ response' = Redirect(RedirectPostDetail(request'.post_id))
               /\ \E c \in DOMAIN comments' \ DOMAIN comments :
                     /\ DOMAIN comments' = DOMAIN comments \cup {c}
                     /\ comments'[c].author = request'.user
                     /\ comments'[c].post = request'.post_id
               /\ \A c \in DOMAIN comments : comments'[c] = comments[c]
          ELSE response'.status = 404 /\ comments' = comments]_vars

\* C6: a valid post form posted by an authenticated user u stores one new post
\* whose author is u, whatever author the form carries, and no step stores a
\* new post under anybody else.
C6_CreatedPostAuthorIsRequester ==
    [][/\ (/\ request'.view = "blog:create_post"
           /\ request'.method = "POST"
           /\ request'.user \in Users
           /\ request'.form_valid)
          => (/\ response' = Redirect(RedirectProfile(request'.user))
              /\ \E pk \in DOMAIN posts' \ DOMAIN posts :
                    /\ DOMAIN posts' = DOMAIN posts \cup {pk}
                    /\ posts'[pk].author = request'.user)
       /\ \A pk \in DOMAIN posts' \ DOMAIN posts :
             /\ request'.view = "blog:create_post"
             /\ request'.method = "POST"
             /\ posts'[pk].author = request'.user]_vars

\* C6 witness: a post was created from a form that named another user as
\* author, and a post of the requester is stored.
C6_Witness ==
    /\ request.view = "blog:create_post"
    /\ request.method = "POST"
    /\ request.user \in Users
    /\ request.form_valid
    /\ request.form_author # request.user
    /\ response = Redirect(RedirectProfile(request.user))
    /\ \E p \in DOMAIN posts : posts[p].author = request.user

\* C7: a request of an unauthenticated user to any of the seven mutating routes
\* is answered with a redirect to the login page and changes no table.
C7_AnonymousRedirectedToLogin ==
    [][(request'.view \in MutatingViews /\ request'.user = Anon)
       => (response' = Redirect(RedirectLogin) /\ UNCHANGED db)]_vars

\* C7 witness: an unauthenticated delete request for an existing post that has
\* a comment was sent to the login page.
C7_Witness ==
    /\ request.view = "blog:delete_post"
    /\ request.method = "POST"
    /\ request.user = Anon
    /\ request.post_id \in DOMAIN posts
    /\ \E c \in DOMAIN comments : comments[c].post = request.post_id
    /\ response = Redirect(RedirectLogin)

\* C8: no step changes the author of a post or of a comment that exists before
\* and after it.
C8_AuthorNeverChanges ==
    [][/\ \A p \in DOMAIN posts \cap DOMAIN posts' :
             posts'[p].author = posts[p].author
       /\ \A c \in DOMAIN comments \cap DOMAIN comments' :
             comments'[c].author = comments[c].author]_vars

\* C9 as stated: in every listing a post placed before another has the strictly
\* later pub_date.
C9_StrictlyDescending ==
    (request.view \in ListViews /\ response.status = 200)
    => \A i, j \in 1..Len(response.object_list) :
          i < j => posts[response.object_list[i]].pub_date
                   > posts[response.object_list[j]].pub_date

\* C9 amended: in every listing (the whole queryset and the page served) a post
\* placed before another has the same or a later pub_date.
C9_NeverAscending ==
    (request.view \in ListViews /\ response.status = 200)
    => /\ \A i, j \in 1..Len(response.object_list) :
             i < j => posts[response.object_list[i]].pub_date
                      >= posts[response.object_list[j]].pub_date
       /\ \A i, j \in 1..Len(response.page_items) :
             i < j => posts[response.page_items[i]].pub_date
                      >= posts[response.page_items[j]].pub_date

\* C9 witness: a listing that holds a later post before an earlier one.
C9_Witness ==
    /\ request.view \in ListViews
    /\ response.status = 200
    /\ Len(response.page_items) >= 2
    /\ posts[response.page_items[1]].pub_date
       > posts[response.page_items[Len(response.page_items)]].pub_date

\* the posts of category slug that are published and not dated after now
CategoryPosts(slug) ==
    {p \in DOMAIN posts : /\ posts[p].category = slug
                          /\ posts[p].is_published
                          /\ posts[p].pub_date <= now}

\* C10: the category listing answers 404 and shows no post when the slug names
\* no category or an unpublished one; otherwise a page that exists is served
\* and the listing holds exactly the visible posts of that category.
C10_CategoryListing ==
    (request.view = "blog:category_posts")
    => IF request.name \notin Categories \/ ~categories[request.name]
       THEN /\ response.status = 404
            /\ response.object_list = <<>>
            /\ response.page_items = <<>>
       ELSE request.page \in 1..num_pages(Cardinality(CategoryPosts(request.name)))
            => /\ response.status = 200
               /\ Range(response.object_list) = CategoryPosts(request.name)
               /\ Len(response.object_list) = Cardinality(CategoryPosts(request.name))

\* C10 witness: the listing of a published category shows a post while a
\* visible post of another category exists.
C10_Witness ==
    /\ request.view = "blog:category_posts"
    /\ response.status = 200
    /\ response.object_list # <<>>
    /\ \E q \in DOMAIN posts :
          /\ posts[q].category # request.name
          /\ PassesFilter(q)

====
